---- MODULE Spec2Model ----
(***************************************************************************)
(* Background job processing of stories-backend: the Redis backed job      *)
(* queue with its polling workers (internal/worker/queue.go), the story    *)
(* expiration sweeper (same file) and the worker manager                   *)
(* (internal/worker/manager.go).                                           *)
(***************************************************************************)
EXTENDS Integers, Sequences, FiniteSets, TLC

(***************************************************************************)
(* Bounds of the model.                                                    *)
(***************************************************************************)
\* clock resolution: readings of time.Now() per second
TicksPerSecond == 2
\* sub-second clock readings that are explored after each whole minute
MaxFine == 1
\* horizon of the clock, in minutes
MaxMinutes == 3
\* polling workers (of one or of several processes) sharing job_queue
NumWorkers == 2
\* jobs that producers enqueue
MaxJobs == 2
\* largest configured WorkerConfig.MaxRetries
MaxRetriesCfg == 3
\* expired stories in the store when the sweeper starts
MaxStories == 5
\* largest configured WorkerConfig.BatchSize
MaxBatch == 3
\* calls of Manager.Start, Manager.Shutdown and Manager.RestartWorker
MaxOps == 3
\* expired stories in the store when a sweep at the ceiling starts
MaxSweep == 20001
\* websocket clients, and the capacity of a client's send channel (256 in
\* NewClient, scaled down)
MaxClients == 3
SendCap == 2
\* expired stories and batch sizes when two sweeps run side by side
ForceStories == 3
ForceBatch == 2

(***************************************************************************)
(* Time.  The clock counts ticks of 1/TicksPerSecond seconds.              *)
(***************************************************************************)
Second == TicksPerSecond
Minute == 60 * Second
MaxTime == MaxMinutes * Minute

\* time.Time.Unix(): whole seconds, the sub-second part is dropped
Unix(t) == t \div TicksPerSecond

Workers == 1 .. NumWorkers
JobIds == 1 .. MaxJobs
\* delays that producers pass to Enqueue
Delays == {0, 1}
\* steps by which the clock is seen to advance
TickSteps == {1, Minute}

\* job types that producers use; the second one has no handler
JobTypes == {"send_notification", "unknown_type"}
\* Manager.registerJobHandlers
Handlers ==
    {"update_user_stats", "cleanup_cache", "send_notification",
     "process_analytics", "cleanup_sessions"}

\* the payload that the producer of the i-th job passes to Enqueue
PayloadOf(i) == [user_id |-> i]

\* the value of a worker's jobData / job variable when it holds none
NoJob == [id |-> 0]

VARIABLES
    now,            \* the wall clock
    cfgMaxRetries,  \* Queue.config.MaxRetries
    queue,          \* the sorted set job_queue: records [score, member]
    nextId,         \* number of jobs enqueued so far, plus one
    wpc,            \* per worker: position in worker / processNextJob / processJob
    held,           \* per worker: jobData, then the unmarshalled job
    stats,          \* Queue.stats
    handlerCalls,   \* per job id: invocations of its handler
    execCount,      \* per job id and attempts value of the entry: processJob calls
    outcome,        \* per job id: what became of the job
    late,           \* jobs with a handler goroutine left running by a timeout
    \* ---- the expiration sweeper and the story store
    batchSize,      \* ExpirationWorker.config.BatchSize
    live,           \* stories with expires_at <= NOW() and deleted_at IS NULL
    spc,            \* position of the sweep in processExpiredStories
    offset,         \* its offset
    totalProcessed, \* its totalProcessed
    batch,          \* the stories of the current fetch not yet processed
    fetched,        \* len(stories) of the current fetch
    startCount,     \* number of expired stories when the sweep began
    fetchLog,       \* sizes of the fetches of the sweep
    metrics,        \* the metrics entries written, with their expiration
    \* ---- a sweep run by ForceRun
    fpc,            \* position of the ForceRun call in processExpiredStories
    foffset,        \* its offset
    ftotal,         \* its totalProcessed
    fbatch,         \* the stories of its current fetch not yet processed
    ffetched,       \* len(stories) of its current fetch
    fret,           \* what the last ForceRun call returned
    \* ---- the websocket hub
    clients,        \* Hub.clients: the set of registered clients
    userClients,    \* Hub.userClients: the list of clients of each user
    sendLen,        \* the messages buffered in each client's send channel
    sendClosed,     \* whether each client's send channel was closed
    created,        \* the clients that NewClient made and Register passed on
    hubPanic,       \* the panic that ended the goroutine of Hub.Run, if any
    \* ---- the worker manager
    mgrRunning,     \* Manager.isRunning
    ctxCancelled,   \* Manager.ctx is cancelled
    enabled,        \* Queue.config.Enabled
    running,        \* per component: its isRunning
    stopClosed,     \* per component: its stopCh is closed
    tasks,          \* the live goroutines launched by Start and RestartWorker
    restarted,      \* per component: relaunched by the last RestartWorker of it,
                    \* with no Shutdown since
    mop,            \* the manager call that holds Manager.mu, and its position
    callerDone,     \* the context passed to Shutdown is done
    connsClosed,    \* db.Close and redisClient.Close were called
    nOps,           \* manager calls made so far
    ret,            \* the last manager call made, and its result
    panicOp         \* the call that panicked ("none": no panic)

qvars ==
    <<now, cfgMaxRetries, queue, nextId, wpc, held, stats,
      handlerCalls, execCount, outcome, late>>
svars ==
    <<batchSize, live, spc, offset, totalProcessed, batch, fetched,
      startCount, fetchLog, metrics>>
mvars ==
    <<mgrRunning, ctxCancelled, enabled, running, stopClosed, tasks,
      restarted, mop, callerDone, connsClosed, nOps, ret, panicOp>>
fvars == <<fpc, foffset, ftotal, fbatch, ffetched, fret>>
hvars == <<clients, userClients, sendLen, sendClosed, created, hubPanic>>
vars == <<qvars, svars, fvars, mvars, hvars>>

(***************************************************************************)
(* The sorted set.                                                         *)
(***************************************************************************)
\* redis ZADD: a member is in the set once; adding it again moves its score
ZAdd(q, score, member) ==
    {e \in q : e.member # member} \cup {[score |-> score, member |-> member]}

\* redis ZRANGEBYSCORE min max LIMIT 0 1: the entries that may be returned,
\* those of least score in [min, max] (equal scores: the store's order)
ZRangeByScoreFirst(q, min, max) ==
    LET due == {e \in q : e.score >= min /\ e.score <= max}
    IN  {e \in due : \A f \in due : e.score <= f.score}

\* redis ZREM of one member: the number of members removed
ZRemCountBlind(q, member) == 1
ZRemCount(q, member) ==
    IF \E e \in q : e.member = member THEN 1 ELSE 0

ZRem(q, member) == {e \in q : e.member # member}

\* score of a job in enqueueJob: float64(job.RunAt.Unix())
Score(job) == Unix(job.runAt)

\* Queue.enqueueJob with a store that accepts the ZADD
enqueueJob(q, job) == ZAdd(q, Score(job), job)

(***************************************************************************)
(* Retry policy of processJob.                                             *)
(***************************************************************************)
DefaultMaxRetries == 3

\* the largest attempts count a job of the model can carry
MaxAttempts ==
    IF MaxRetriesCfg > DefaultMaxRetries THEN MaxRetriesCfg + 1
    ELSE DefaultMaxRetries + 1

\* maxRetries of processJob: the job's own, else the queue's, else 3
EffectiveMaxRetries(job) ==
    IF job.maxRetries # 0 THEN job.maxRetries
    ELSE IF cfgMaxRetries # 0 THEN cfgMaxRetries
    ELSE DefaultMaxRetries

\* the test that decides a retry: job.Attempts < maxRetries
ShouldRetryInclusive(attempts, maxRetries) == attempts <= maxRetries
ShouldRetry(attempts, maxRetries) == attempts < maxRetries

\* retryDelay := time.Duration(job.Attempts) * time.Minute
RetryDelayFlat(attempts) == Minute
RetryDelay(attempts) == attempts * Minute

\* handler, exists := q.handlers[job.Type]
HandlerExistsAlways(type) == TRUE
HandlerExists(type) == type \in Handlers

\* Queue.updateStats
updateStatsFailedAlways(s, success, retry) ==
    [s EXCEPT !.JobsProcessed = IF success THEN @ + 1 ELSE @,
              !.JobsFailed = @ + 1,
              !.JobsRetried = IF retry THEN @ + 1 ELSE @]
updateStats(s, success, retry) ==
    [s EXCEPT !.JobsProcessed = IF success THEN @ + 1 ELSE @,
              !.JobsFailed = IF ~success THEN @ + 1 ELSE @,
              !.JobsRetried = IF retry THEN @ + 1 ELSE @]

(***************************************************************************)
(* Initial state: NewQueue, nothing enqueued, every worker at its select.  *)
(***************************************************************************)
QueueInit ==
    /\ now = 0
    /\ cfgMaxRetries \in 0 .. MaxRetriesCfg
    /\ queue = {}
    /\ nextId = 1
    /\ wpc = [w \in Workers |-> "select"]
    /\ held = [w \in Workers |-> NoJob]
    /\ stats = [JobsProcessed |-> 0, JobsFailed |-> 0, JobsRetried |-> 0]
    /\ handlerCalls = [i \in JobIds |-> 0]
    /\ execCount = [i \in JobIds |-> [a \in 0 .. MaxAttempts |-> 0]]
    /\ outcome = [i \in JobIds |-> "none"]
    /\ late = {}


(***************************************************************************)
(* The clock.                                                              *)
(***************************************************************************)
Tick ==
    /\ \E d \in TickSteps :
        /\ now + d <= MaxTime
        /\ d < Minute => (now % Minute) < MaxFine
        /\ now' = now + d
    /\ UNCHANGED <<cfgMaxRetries, queue, nextId, wpc, held, stats,
                   handlerCalls, execCount, outcome>>
    /\ UNCHANGED <<late, svars, fvars, mvars, hvars>>

(***************************************************************************)
(* Queue.Enqueue(jobType, payload, delay)                                  *)
(***************************************************************************)
Enqueue ==
    /\ nextId <= MaxJobs
    /\ \E type \in JobTypes, delay \in Delays :
        LET job == [id |-> nextId, type |-> type, payload |-> PayloadOf(nextId),
                    runAt |-> now + delay,
                    attempts |-> 0, maxRetries |-> cfgMaxRetries]
        IN  /\ queue' = enqueueJob(queue, job)
            /\ outcome' = [outcome EXCEPT ![nextId] = "queued"]
    /\ nextId' = nextId + 1
    /\ UNCHANGED <<now, cfgMaxRetries, wpc, held, stats,
                   handlerCalls, execCount>>
    /\ UNCHANGED <<late, svars, fvars, mvars, hvars>>

(***************************************************************************)
(* Queue.processNextJob, first half: the range query of a poll cycle.      *)
(***************************************************************************)
Poll(w) ==
    /\ wpc[w] = "select"
    /\ LET result == ZRangeByScoreFirst(queue, 0, Unix(now))
       IN  IF result = {}
           THEN UNCHANGED <<wpc, held>>
           ELSE \E e \in result :
                    /\ held' = [held EXCEPT ![w] = e.member]
                    /\ wpc' = [wpc EXCEPT ![w] = "zrem"]
    /\ UNCHANGED <<now, cfgMaxRetries, queue, nextId, stats,
                   handlerCalls, execCount, outcome>>
    /\ UNCHANGED <<late, svars, fvars, mvars, hvars>>

(***************************************************************************)
(* Queue.processNextJob, second half: ZRem of the entry that was read.     *)
(***************************************************************************)
Claim(w) ==
    /\ wpc[w] = "zrem"
    /\ LET n == ZRemCount(queue, held[w])
       IN  /\ queue' = ZRem(queue, held[w])
           /\ IF n = 0
              THEN /\ wpc' = [wpc EXCEPT ![w] = "zero"]
                   /\ UNCHANGED <<held, outcome>>
              ELSE /\ wpc' = [wpc EXCEPT ![w] = "claimed"]
                   /\ held' = held
                   /\ outcome' = [outcome EXCEPT ![held[w].id] = "claimed"]
    /\ UNCHANGED <<now, cfgMaxRetries, nextId, stats, handlerCalls,
                   execCount>>
    /\ UNCHANGED <<late, svars, fvars, mvars, hvars>>

(***************************************************************************)
(* Queue.processNextJob: removed == 0, the entry went to another worker;   *)
(* return nil to the select of the polling loop.                           *)
(***************************************************************************)
ReturnZero(w) ==
    /\ wpc[w] = "zero"
    /\ wpc' = [wpc EXCEPT ![w] = "select"]
    /\ held' = [held EXCEPT ![w] = NoJob]
    /\ UNCHANGED <<now, cfgMaxRetries, queue, nextId, stats, handlerCalls,
                   execCount, outcome>>
    /\ UNCHANGED <<late, svars, fvars, mvars, hvars>>

(***************************************************************************)
(* Queue.processJob up to the invocation of the handler.                   *)
(***************************************************************************)
Dispatch(w) ==
    /\ wpc[w] = "claimed"
    /\ LET job == held[w]
       IN  /\ execCount' = [execCount EXCEPT ![job.id][job.attempts] = @ + 1]
           /\ IF ~HandlerExists(job.type)
              THEN /\ stats' = updateStats(stats, FALSE, FALSE)
                   /\ wpc' = [wpc EXCEPT ![w] = "select"]
                   /\ held' = [held EXCEPT ![w] = NoJob]
                   /\ outcome' = [outcome EXCEPT ![job.id] = "nohandler"]
                   /\ UNCHANGED handlerCalls
              ELSE /\ held' = [held EXCEPT ![w].attempts = @ + 1]
                   /\ handlerCalls' = [handlerCalls EXCEPT ![job.id] = @ + 1]
                   /\ wpc' = [wpc EXCEPT ![w] = "running"]
                   /\ outcome' = [outcome EXCEPT ![job.id] = "running"]
                   /\ UNCHANGED stats
    /\ UNCHANGED <<now, cfgMaxRetries, queue, nextId>>
    /\ UNCHANGED <<late, svars, fvars, mvars, hvars>>

(***************************************************************************)
(* Queue.processJob after the select: the handler returned nil.            *)
(***************************************************************************)
HandlerSucceeds(w) ==
    /\ wpc[w] = "running"
    /\ stats' = updateStats(stats, TRUE, FALSE)
    /\ outcome' = [outcome EXCEPT ![held[w].id] = "done"]
    /\ wpc' = [wpc EXCEPT ![w] = "select"]
    /\ held' = [held EXCEPT ![w] = NoJob]
    /\ UNCHANGED <<now, cfgMaxRetries, queue, nextId, handlerCalls,
                   execCount>>
    /\ UNCHANGED <<late, svars, fvars, mvars, hvars>>

(***************************************************************************)
(* Queue.processJob after the select: the handler returned an error or the *)
(* job context was done first.  storeOk: the ZADD of the retry succeeds.   *)
(***************************************************************************)
FailWith(w, storeOk) ==
    /\ wpc[w] = "running"
    /\ LET job == held[w]
           maxRetries == EffectiveMaxRetries(job)
           retryDelay == RetryDelay(job.attempts)
           retried == [job EXCEPT !.runAt = now + retryDelay]
       IN  IF ShouldRetry(job.attempts, maxRetries) /\ storeOk
           THEN /\ queue' = enqueueJob(queue, retried)
                /\ stats' = updateStats(stats, FALSE, TRUE)
                /\ outcome' = [outcome EXCEPT ![job.id] = "queued"]
           ELSE /\ stats' = updateStats(stats, FALSE, FALSE)
                /\ outcome' = [outcome EXCEPT ![job.id] =
                       IF ShouldRetry(job.attempts, maxRetries)
                       THEN "retrylost" ELSE "exhausted"]
                /\ UNCHANGED queue
    /\ wpc' = [wpc EXCEPT ![w] = "select"]
    /\ held' = [held EXCEPT ![w] = NoJob]
    /\ UNCHANGED <<now, cfgMaxRetries, nextId, handlerCalls,
                   execCount>>
    /\ UNCHANGED <<svars, fvars, mvars, hvars>>

\* case err = <-done, with err # nil
HandlerFails(w) == FailWith(w, TRUE) /\ UNCHANGED late

\* case <-jobCtx.Done(): the timeout elapsed (or the context was cancelled)
\* before the handler returned; the goroutine of the handler goes on
HandlerTimeoutDrops(w) ==
    /\ FailWith(w, FALSE)
    /\ late' = late \cup {held[w].id}
HandlerTimeout(w) ==
    /\ FailWith(w, TRUE)
    /\ late' = late \cup {held[w].id}

\* done <- handler(job) after the timeout: the result goes into the buffer
\* of done, which nobody reads any more
LateResult(i) ==
    /\ i \in late
    /\ late' = late \ {i}
    /\ UNCHANGED <<now, cfgMaxRetries, queue, nextId, wpc, held, stats,
                   handlerCalls, execCount, outcome>>
    /\ UNCHANGED <<svars, fvars, mvars, hvars>>

\* the retry's ZADD returns an error: "Failed to retry job"
RetryEnqueueFails(w) ==
    /\ wpc[w] = "running"
    /\ ShouldRetry(held[w].attempts, EffectiveMaxRetries(held[w]))
    /\ FailWith(w, FALSE)
    /\ UNCHANGED late

(***************************************************************************)
(* The worker's process dies between the ZRem and the end of processJob    *)
(* (a handler that panics is not recovered); a new process takes its place.*)
(***************************************************************************)
Crash(w) ==
    /\ wpc[w] \in {"claimed", "running"}
    /\ wpc' = [wpc EXCEPT ![w] = "select"]
    /\ held' = [held EXCEPT ![w] = NoJob]
    /\ outcome' = [outcome EXCEPT ![held[w].id] = "lost"]
    /\ UNCHANGED <<now, cfgMaxRetries, queue, nextId, stats, handlerCalls,
                   execCount>>
    /\ UNCHANGED <<late, svars, fvars, mvars, hvars>>

(***************************************************************************)
(* Errors of the store in a poll cycle.                                    *)
(***************************************************************************)
\* ZRangeByScoreWithScores returns an error: processNextJob returns it
PollFails(w) ==
    /\ wpc[w] = "select"
    /\ wpc' = [wpc EXCEPT ![w] = "logerr"]
    /\ UNCHANGED <<now, cfgMaxRetries, queue, nextId, held, stats,
                   handlerCalls, execCount, outcome>>
    /\ UNCHANGED <<late, svars, fvars, mvars, hvars>>

\* ZRem returns an error, whether the store had run the command or not:
\* processNextJob returns it
ClaimFails(w) ==
    /\ wpc[w] = "zrem"
    /\ wpc' = [wpc EXCEPT ![w] = "logerr"]
    /\ queue' \in {queue, ZRem(queue, held[w])}
    /\ UNCHANGED <<now, cfgMaxRetries, nextId, held, stats,
                   handlerCalls, execCount, outcome>>
    /\ UNCHANGED <<late, svars, fvars, mvars, hvars>>

\* Queue.worker: logger.Error("Failed to process job"), and the for loop
\* comes back to its select
LogErrorReturns(w) ==
    /\ wpc[w] = "logerr"
    /\ wpc' = [wpc EXCEPT ![w] = "dead"]
    /\ held' = [held EXCEPT ![w] = NoJob]
    /\ UNCHANGED <<now, cfgMaxRetries, queue, nextId, stats, handlerCalls,
                   execCount, outcome>>
    /\ UNCHANGED <<late, svars, fvars, mvars, hvars>>
LogError(w) ==
    /\ wpc[w] = "logerr"
    /\ wpc' = [wpc EXCEPT ![w] = "select"]
    /\ held' = [held EXCEPT ![w] = NoJob]
    /\ UNCHANGED <<now, cfgMaxRetries, queue, nextId, stats, handlerCalls,
                   execCount, outcome>>
    /\ UNCHANGED <<late, svars, fvars, mvars, hvars>>

(***************************************************************************)
(* The story store and the expiration sweeper.                             *)
(***************************************************************************)
\* the hard ceiling of one sweep: if offset > 10000
SweepCeiling == 10000

\* ORDER BY expires_at ASC; stories are numbered in the order they expire
SortedSeq(S) ==
    LET top == IF S \subseteq 1 .. MaxStories THEN MaxStories ELSE MaxSweep
    IN  SelectSeq([i \in 1 .. top |-> i], LAMBDA x : x \in S)

\* StoryStoreImpl.GetExpired: the rows that are expired and not deleted now,
\* in expiry order, LIMIT limit OFFSET off
GetExpiredNone(S, limit, off) == <<>>
GetExpired(S, limit, off) ==
    LET sorted == SortedSeq(S)
        last == IF off + limit < Len(sorted) THEN off + limit ELSE Len(sorted)
    IN  SubSeq(sorted, off + 1, last)

\* StoryStoreImpl.Delete: sets deleted_at where it is NULL; ErrNotFound when
\* no row was affected
DeleteFoundAlways(S, id) == TRUE
DeleteFound(S, id) == id \in S
Delete(S, id) == S \ {id}

SweepInit ==
    /\ batchSize \in 1 .. MaxBatch
    /\ \E n \in 0 .. MaxStories : live = 1 .. n
    /\ spc = "idle"
    /\ offset = 0
    /\ totalProcessed = 0
    /\ batch = <<>>
    /\ fetched = 0
    /\ startCount = 0
    /\ fetchLog = <<>>
    /\ metrics = <<>>

\* the sweeper part of a state in which the sweeper has nothing to do
SweepQuiet ==
    /\ SweepInit
    /\ batchSize = 1
    /\ live = {}

\* the ticker of ExpirationWorker.Start fires, or ForceRun is called:
\* processExpiredStories begins
SweepBegin ==
    /\ spc = "idle"
    /\ spc' = "fetch"
    /\ offset' = 0
    /\ totalProcessed' = 0
    /\ startCount' = Cardinality(live)
    /\ fetchLog' = <<>>
    /\ batch' = <<>>
    /\ fetched' = 0
    /\ UNCHANGED <<batchSize, live, metrics>>
    /\ UNCHANGED <<qvars, fvars, mvars, hvars>>

\* stories, err := w.storyStore.GetExpired(ctx, w.config.BatchSize, offset)
Fetch ==
    /\ spc = "fetch"
    /\ LET stories == GetExpired(live, batchSize, offset)
       IN  /\ fetched' = Len(stories)
           /\ fetchLog' = Append(fetchLog, Len(stories))
           /\ batch' = stories
           /\ spc' = IF Len(stories) = 0 THEN "finish" ELSE "process"
    /\ UNCHANGED <<batchSize, live, offset, totalProcessed, startCount, metrics>>
    /\ UNCHANGED <<qvars, fvars, mvars, hvars>>

\* one round of "for _, story := range stories": processExpiredStory
ProcessStory ==
    /\ spc = "process"
    /\ batch # <<>>
    /\ LET id == Head(batch)
       IN  IF DeleteFound(live, id)
           THEN /\ live' = Delete(live, id)
                /\ totalProcessed' = totalProcessed + 1
           ELSE UNCHANGED <<live, totalProcessed>>
    /\ batch' = Tail(batch)
    /\ UNCHANGED <<batchSize, spc, offset, fetched, startCount, fetchLog, metrics>>
    /\ UNCHANGED <<qvars, fvars, mvars, hvars>>

\* after the range loop: stop on a short batch, else advance the offset and
\* stop at the ceiling
AfterBatch ==
    /\ spc = "process"
    /\ batch = <<>>
    /\ IF fetched < batchSize
       THEN /\ spc' = "finish"
            /\ UNCHANGED offset
       ELSE /\ offset' = offset + batchSize
            /\ spc' = IF offset' > SweepCeiling THEN "finish" ELSE "delay"
    /\ UNCHANGED <<batchSize, live, totalProcessed, batch, fetched, startCount,
                   fetchLog, metrics>>
    /\ UNCHANGED <<qvars, fvars, mvars, hvars>>

\* the select between two batches: 100ms pass, or the context is done and
\* the sweep returns at once
BatchDelay ==
    /\ spc = "delay"
    /\ \/ spc' = "fetch"
       \/ ctxCancelled /\ spc' = "idle"
    /\ UNCHANGED <<batchSize, live, offset, totalProcessed, batch, fetched,
                   startCount, fetchLog, metrics>>
    /\ UNCHANGED <<qvars, fvars, mvars, hvars>>

\* expiration of a metrics entry, in seconds: Set(ctx, key, metrics, 86400)
MetricsTTL == 86400

\* ExpirationWorker.recordMetrics with a cache that accepts the write
recordMetrics(m, processed) ==
    Append(m, [processed_count |-> processed, ttl |-> MetricsTTL])

\* the end of processExpiredStories: recordMetrics when something was processed
SweepFinishAlways ==
    /\ spc = "finish"
    /\ metrics' = recordMetrics(metrics, totalProcessed)
    /\ spc' = "idle"
    /\ UNCHANGED <<batchSize, live, offset, totalProcessed, batch, fetched,
                   startCount, fetchLog>>
    /\ UNCHANGED <<qvars, fvars, mvars, hvars>>
SweepFinish ==
    /\ spc = "finish"
    /\ metrics' = IF totalProcessed > 0
                  THEN recordMetrics(metrics, totalProcessed)
                  ELSE metrics
    /\ spc' = "idle"
    /\ UNCHANGED <<batchSize, live, offset, totalProcessed, batch, fetched,
                   startCount, fetchLog>>
    /\ UNCHANGED <<qvars, fvars, mvars, hvars>>

(***************************************************************************)
(* Manager.ForceRunExpiration / ExpirationWorker.ForceRun: a sweep run by  *)
(* the caller, beside the sweeps of the ticker.                            *)
(***************************************************************************)
\* no ForceRun call was made
ForceQuiet ==
    /\ fpc = "none"
    /\ foffset = 0
    /\ ftotal = 0
    /\ fbatch = <<>>
    /\ ffetched = 0
    /\ fret = "none"

\* if !w.isRunning { return error }
ForceRefusedNever(isRunning) == FALSE
ForceRefused(isRunning) == ~isRunning

\* the call, its test of isRunning and the first lines of the sweep
ForceRunCall ==
    /\ fpc = "none"
    /\ IF ForceRefused(running["expiration"])
       THEN /\ fret' = "error"
            /\ UNCHANGED <<fpc, foffset, ftotal, fbatch, ffetched>>
       ELSE /\ fret' = "pending"
            /\ fpc' = "fetch"
            /\ foffset' = 0
            /\ ftotal' = 0
            /\ fbatch' = <<>>
            /\ ffetched' = 0
    /\ UNCHANGED <<qvars, svars, mvars, hvars>>

ForceFetch ==
    /\ fpc = "fetch"
    /\ LET stories == GetExpired(live, batchSize, foffset)
       IN  /\ ffetched' = Len(stories)
           /\ fbatch' = stories
           /\ fpc' = IF Len(stories) = 0 THEN "finish" ELSE "process"
    /\ UNCHANGED <<foffset, ftotal, fret>>
    /\ UNCHANGED <<qvars, svars, mvars, hvars>>

ForceProcessStory ==
    /\ fpc = "process"
    /\ fbatch # <<>>
    /\ LET id == Head(fbatch)
       IN  IF DeleteFound(live, id)
           THEN /\ live' = Delete(live, id)
                /\ ftotal' = ftotal + 1
           ELSE UNCHANGED <<live, ftotal>>
    /\ fbatch' = Tail(fbatch)
    /\ UNCHANGED <<batchSize, spc, offset, totalProcessed, batch, fetched,
                   startCount, fetchLog, metrics>>
    /\ UNCHANGED <<fpc, foffset, ffetched, fret>>
    /\ UNCHANGED <<qvars, mvars, hvars>>

ForceAfterBatch ==
    /\ fpc = "process"
    /\ fbatch = <<>>
    /\ IF ffetched < batchSize
       THEN /\ fpc' = "finish"
            /\ UNCHANGED foffset
       ELSE /\ foffset' = foffset + batchSize
            /\ fpc' = IF foffset' > SweepCeiling THEN "finish" ELSE "delay"
    /\ UNCHANGED <<ftotal, fbatch, ffetched, fret>>
    /\ UNCHANGED <<qvars, svars, mvars, hvars>>

\* the context of Manager.ForceRunExpiration is context.Background(): the
\* select between two batches ends by its 100ms
ForceBatchDelay ==
    /\ fpc = "delay"
    /\ fpc' = "fetch"
    /\ UNCHANGED <<foffset, ftotal, fbatch, ffetched, fret>>
    /\ UNCHANGED <<qvars, svars, mvars, hvars>>

\* the end of the sweep and the return of ForceRun
ForceFinish ==
    /\ fpc = "finish"
    /\ metrics' = IF ftotal > 0 THEN recordMetrics(metrics, ftotal)
                  ELSE metrics
    /\ fpc' = "none"
    /\ fret' = "nil"
    /\ UNCHANGED <<batchSize, live, spc, offset, totalProcessed, batch,
                   fetched, startCount, fetchLog>>
    /\ UNCHANGED <<foffset, ftotal, fbatch, ffetched>>
    /\ UNCHANGED <<qvars, mvars, hvars>>

(***************************************************************************)
(* The websocket hub.  Hub.Run takes one operation at a time from its      *)
(* channels; every client has a writer that empties its send channel.      *)
(***************************************************************************)
Clients == 1 .. MaxClients
Users == {1, 2}
\* client.User.ID
UserOf(c) == (c % 2) + 1

\* NewHub: no client, no user
HubQuiet ==
    /\ clients = {}
    /\ userClients = [u \in Users |-> <<>>]
    /\ sendLen = [c \in Clients |-> 0]
    /\ sendClosed = [c \in Clients |-> FALSE]
    /\ created = [c \in Clients |-> FALSE]
    /\ hubPanic = "none"

\* the part of the hub that a send changes
HubState == [clients |-> clients, len |-> sendLen, closed |-> sendClosed,
             panic |-> hubPanic]

\* Client.Send, and the select of Hub.broadcastMessage: the message goes into
\* the buffer; with a full buffer the channel is closed and the client
\* deleted from Hub.clients; a send on a closed channel panics
SendTo(h, c) ==
    IF h.panic # "none" THEN h
    ELSE IF h.closed[c] THEN [h EXCEPT !.panic = "send on closed channel"]
    ELSE IF h.len[c] < SendCap THEN [h EXCEPT !.len[c] = @ + 1]
    ELSE [h EXCEPT !.closed[c] = TRUE, !.clients = @ \ {c}]

RECURSIVE SendAll(_, _)
\* for client := range h.clients
SendAll(h, S) ==
    IF S = {} THEN h
    ELSE LET c == CHOOSE x \in S : TRUE
         IN  SendAll(SendTo(h, c), S \ {c})

RECURSIVE SendSeq(_, _)
\* for _, client := range clients
SendSeq(h, s) ==
    IF s = <<>> THEN h ELSE SendSeq(SendTo(h, Head(s)), Tail(s))

\* the hub after the sends that led to h
HubAfter(h) ==
    /\ clients' = h.clients
    /\ sendLen' = h.len
    /\ sendClosed' = h.closed
    /\ hubPanic' = h.panic

\* the list without its first c
RemoveFirst(s, c) ==
    IF \E i \in DOMAIN s : s[i] = c
    THEN LET i == CHOOSE k \in DOMAIN s :
                      s[k] = c /\ \A j \in 1 .. k - 1 : s[j] # c
         IN  SubSeq(s, 1, i - 1) \o SubSeq(s, i + 1, Len(s))
    ELSE s

\* Hub.registerClient, with the welcome event
HubRegister(c) ==
    /\ hubPanic = "none"
    /\ ~created[c]
    /\ created' = [created EXCEPT ![c] = TRUE]
    /\ userClients' = [userClients EXCEPT ![UserOf(c)] = Append(@, c)]
    /\ HubAfter(SendTo([HubState EXCEPT !.clients = @ \cup {c}], c))
    /\ UNCHANGED <<qvars, svars, fvars, mvars>>

\* Hub.unregisterClient
HubUnregister(c) ==
    /\ hubPanic = "none"
    /\ created[c]
    /\ IF c \in clients
       THEN /\ clients' = clients \ {c}
            /\ IF sendClosed[c]
               THEN /\ hubPanic' = "close of closed channel"
                    /\ UNCHANGED <<sendClosed, userClients>>
               ELSE /\ sendClosed' = [sendClosed EXCEPT ![c] = TRUE]
                    /\ userClients' = [userClients EXCEPT ![UserOf(c)] =
                                           RemoveFirst(@, c)]
                    /\ UNCHANGED hubPanic
       ELSE UNCHANGED <<clients, sendClosed, userClients, hubPanic>>
    /\ UNCHANGED <<sendLen, created>>
    /\ UNCHANGED <<qvars, svars, fvars, mvars>>

\* Hub.broadcastMessage
HubBroadcast ==
    /\ hubPanic = "none"
    /\ HubAfter(SendAll(HubState, clients))
    /\ UNCHANGED <<userClients, created>>
    /\ UNCHANGED <<qvars, svars, fvars, mvars>>

\* Hub.broadcastEvent
HubBroadcastEvent ==
    /\ hubPanic = "none"
    /\ HubAfter(SendAll(HubState, clients))
    /\ UNCHANGED <<userClients, created>>
    /\ UNCHANGED <<qvars, svars, fvars, mvars>>

\* Hub.sendToUser
HubSendToUser(u) ==
    /\ hubPanic = "none"
    /\ IF userClients[u] = <<>>
       THEN UNCHANGED <<clients, sendLen, sendClosed, hubPanic>>
       ELSE HubAfter(SendSeq(HubState, userClients[u]))
    /\ UNCHANGED <<userClients, created>>
    /\ UNCHANGED <<qvars, svars, fvars, mvars>>

\* Client.WritePump: case message, ok := <-c.send takes a buffered message
WritePump(c) ==
    /\ hubPanic = "none"
    /\ sendLen[c] > 0
    /\ sendLen' = [sendLen EXCEPT ![c] = @ - 1]
    /\ UNCHANGED <<clients, userClients, sendClosed, created, hubPanic>>
    /\ UNCHANGED <<qvars, svars, fvars, mvars>>

NextHub ==
    \/ \E c \in Clients : HubRegister(c)
    \/ \E c \in Clients : HubUnregister(c)
    \/ HubBroadcast
    \/ HubBroadcastEvent
    \/ \E u \in Users : HubSendToUser(u)
    \/ \E c \in Clients : WritePump(c)

NextSweep ==
    \/ SweepBegin
    \/ Fetch
    \/ ProcessStory
    \/ AfterBatch
    \/ BatchDelay
    \/ SweepFinish


(***************************************************************************)
(* The worker manager and the lifecycle of the two components.             *)
(***************************************************************************)
Components == {"expiration", "queue"}
\* names passed to RestartWorker; the last one is no worker
WorkerNames == {"expiration", "queue", "cache"}

NoLoops == [i \in Workers |-> "none"]
\* a goroutine "go func() { defer m.wg.Done(); x.Start(m.ctx) }()"
NewTask(c) == [comp |-> c, pc |-> "start", loops |-> NoLoops]

\* defer m.wg.Done(): the goroutine t is gone
Finished(ts, t) == SubSeq(ts, 1, t - 1) \o SubSeq(ts, t + 1, Len(ts))

NoRet == [op |-> "none", result |-> "none", early |-> FALSE]
Returned(op, result, early) == [op |-> op, result |-> result, early |-> early]

\* m.wg.Wait() of Shutdown returns: every launched goroutine has finished
AllReturned == tasks = <<>>

\* Manager.Start: if m.isRunning { return error }
StartRefusedNever(isRunning) == FALSE
StartRefused(isRunning) == isRunning

\* Manager.Shutdown: if !m.isRunning { return nil }
ShutdownSkippedNever(isRunning) == FALSE
ShutdownSkipped(isRunning) == ~isRunning

\* Queue.Stop and ExpirationWorker.Stop: nothing when not running, else
\* close(stopCh), which panics on a channel that is closed already
StopOutcome(isRunning, closed) ==
    IF ~isRunning THEN "skip"
    ELSE IF closed THEN "panic"
    ELSE "close"

MgrQuiet ==
    /\ mgrRunning = FALSE
    /\ ctxCancelled = FALSE
    /\ enabled = TRUE
    /\ running = [c \in Components |-> FALSE]
    /\ stopClosed = [c \in Components |-> FALSE]
    /\ tasks = <<>>
    /\ restarted = [c \in Components |-> FALSE]
    /\ mop = "none"
    /\ callerDone = FALSE
    /\ connsClosed = FALSE
    /\ nOps = 0
    /\ ret = NoRet
    /\ panicOp = "none"

\* NewManager: both components built, nothing started
MgrInit ==
    /\ mgrRunning = FALSE
    /\ ctxCancelled = FALSE
    /\ enabled \in BOOLEAN
    /\ running = [c \in Components |-> FALSE]
    /\ stopClosed = [c \in Components |-> FALSE]
    /\ tasks = <<>>
    /\ restarted = [c \in Components |-> FALSE]
    /\ mop = "none"
    /\ callerDone = FALSE
    /\ connsClosed = FALSE
    /\ nOps = 0
    /\ ret = NoRet
    /\ panicOp = "none"

(***************************************************************************)
(* Manager.Start                                                           *)
(***************************************************************************)
MgrStart ==
    /\ panicOp = "none" /\ mop = "none" /\ nOps < MaxOps
    /\ nOps' = nOps + 1
    /\ IF StartRefused(mgrRunning)
       THEN /\ ret' = Returned("Start", "error", TRUE)
            /\ UNCHANGED <<tasks, mgrRunning>>
       ELSE /\ tasks' = tasks \o <<NewTask("expiration"), NewTask("queue")>>
            /\ mgrRunning' = TRUE
            /\ ret' = Returned("Start", "nil", FALSE)
    /\ UNCHANGED <<ctxCancelled, enabled, running, stopClosed, restarted, mop,
                   callerDone, connsClosed, panicOp>>
    /\ UNCHANGED <<qvars, svars, fvars, hvars>>

(***************************************************************************)
(* Manager.Shutdown                                                        *)
(***************************************************************************)
\* the guard, m.cancel(), and the start of the wait for the goroutines
ShutdownBegin ==
    /\ panicOp = "none" /\ mop = "none" /\ nOps < MaxOps
    /\ nOps' = nOps + 1
    /\ IF ShutdownSkipped(mgrRunning)
       THEN /\ ret' = Returned("Shutdown", "nil", TRUE)
            /\ UNCHANGED <<ctxCancelled, mop, restarted>>
       ELSE /\ ctxCancelled' = TRUE
            /\ mop' = "sd_wait"
            /\ restarted' = [c \in Components |-> FALSE]
            /\ ret' = Returned("Shutdown", "pending", FALSE)
    /\ UNCHANGED <<mgrRunning, enabled, running, stopClosed, tasks, callerDone,
                   connsClosed, panicOp>>
    /\ UNCHANGED <<qvars, svars, fvars, hvars>>

\* the deadline of the context that the caller passed to Shutdown passes
CallerDeadline ==
    /\ panicOp = "none"
    /\ mop \in {"sd_wait", "sd_grace"}
    /\ ~callerDone
    /\ callerDone' = TRUE
    /\ UNCHANGED <<restarted, mgrRunning, ctxCancelled, enabled,
                   running, stopClosed,
                   tasks, mop, connsClosed, nOps, ret, panicOp>>
    /\ UNCHANGED <<qvars, svars, fvars, hvars>>

\* select { case <-done: case <-ctx.Done(): }
ShutdownWaited ==
    /\ panicOp = "none"
    /\ mop = "sd_wait"
    /\ AllReturned \/ callerDone
    /\ mop' = "sd_stop"
    /\ UNCHANGED <<restarted, mgrRunning, ctxCancelled, enabled,
                   running, stopClosed,
                   tasks, callerDone, connsClosed, nOps, ret, panicOp>>
    /\ UNCHANGED <<qvars, svars, fvars, hvars>>

\* m.expirationWorker.Stop(ctx) up to its select
ShutdownStopExpiration ==
    /\ panicOp = "none"
    /\ mop = "sd_stop"
    /\ LET o == StopOutcome(running["expiration"], stopClosed["expiration"])
       IN  /\ mop' = CASE o = "skip" -> "sd_queue"
                       [] o = "close" -> "sd_grace"
                       [] OTHER -> mop
           /\ stopClosed' = IF o = "close"
                            THEN [stopClosed EXCEPT !["expiration"] = TRUE]
                            ELSE stopClosed
           /\ panicOp' = IF o = "panic" THEN "Shutdown" ELSE panicOp
    /\ UNCHANGED <<restarted, mgrRunning, ctxCancelled, enabled,
                   running, tasks,
                   callerDone, connsClosed, nOps, ret>>
    /\ UNCHANGED <<qvars, svars, fvars, hvars>>

\* the select of ExpirationWorker.Stop: five seconds pass, or ctx is done
ShutdownGrace ==
    /\ panicOp = "none"
    /\ mop = "sd_grace"
    /\ mop' = "sd_queue"
    /\ UNCHANGED <<restarted, mgrRunning, ctxCancelled, enabled,
                   running, stopClosed,
                   tasks, callerDone, connsClosed, nOps, ret, panicOp>>
    /\ UNCHANGED <<qvars, svars, fvars, hvars>>

\* m.queue.Stop(ctx), m.db.Close(), m.redisClient.Close(), isRunning = false
ShutdownFinish ==
    /\ panicOp = "none"
    /\ mop = "sd_queue"
    /\ LET o == StopOutcome(running["queue"], stopClosed["queue"])
       IN  IF o = "panic"
           THEN /\ panicOp' = "Shutdown"
                /\ UNCHANGED <<stopClosed, connsClosed, mgrRunning, ret, mop,
                               callerDone>>
           ELSE /\ stopClosed' = IF o = "close"
                                 THEN [stopClosed EXCEPT !["queue"] = TRUE]
                                 ELSE stopClosed
                /\ connsClosed' = TRUE
                /\ mgrRunning' = FALSE
                /\ ret' = Returned("Shutdown", "nil", FALSE)
                /\ mop' = "none"
                /\ callerDone' = FALSE
                /\ UNCHANGED panicOp
    /\ UNCHANGED <<restarted, ctxCancelled, enabled, running, tasks, nOps>>
    /\ UNCHANGED <<qvars, svars, fvars, hvars>>

(***************************************************************************)
(* Manager.RestartWorker(workerName)                                       *)
(***************************************************************************)
RestartWorker(name) ==
    /\ panicOp = "none" /\ mop = "none" /\ nOps < MaxOps
    /\ nOps' = nOps + 1
    /\ IF name \notin Components
       THEN /\ ret' = Returned("RestartWorker", "error", TRUE)
            /\ UNCHANGED <<stopClosed, tasks, restarted, mop, panicOp>>
       ELSE LET o == StopOutcome(running[name], stopClosed[name])
            IN  /\ stopClosed' = IF o = "close"
                                 THEN [stopClosed EXCEPT ![name] = TRUE]
                                 ELSE stopClosed
                /\ panicOp' = IF o = "panic" THEN "RestartWorker" ELSE panicOp
                /\ IF o = "panic" \/ (o = "close" /\ name = "expiration")
                   THEN /\ ret' = Returned("RestartWorker", "pending", FALSE)
                        /\ mop' = IF o = "panic" THEN mop ELSE "rs_grace"
                        /\ restarted' = [restarted EXCEPT ![name] = FALSE]
                        /\ UNCHANGED tasks
                   ELSE /\ tasks' = Append(tasks, NewTask(name))
                        /\ restarted' = [restarted EXCEPT ![name] = TRUE]
                        /\ ret' = Returned("RestartWorker", "nil", FALSE)
                        /\ UNCHANGED mop
    /\ UNCHANGED <<mgrRunning, ctxCancelled, enabled, running, callerDone,
                   connsClosed>>
    /\ UNCHANGED <<qvars, svars, fvars, hvars>>

\* the five seconds of ExpirationWorker.Stop(context.Background()) are over:
\* the new goroutine is launched and RestartWorker returns
RestartGrace ==
    /\ panicOp = "none"
    /\ mop = "rs_grace"
    /\ tasks' = Append(tasks, NewTask("expiration"))
    /\ restarted' = [restarted EXCEPT !["expiration"] = TRUE]
    /\ ret' = Returned("RestartWorker", "nil", FALSE)
    /\ mop' = "none"
    /\ UNCHANGED <<mgrRunning, ctxCancelled, enabled, running, stopClosed,
                   callerDone, connsClosed, nOps, panicOp>>
    /\ UNCHANGED <<qvars, svars, fvars, hvars>>

(***************************************************************************)
(* ExpirationWorker.Start, run by a goroutine of the manager               *)
(***************************************************************************)
\* if w.isRunning { return error }
TaskCheck(t) ==
    /\ panicOp = "none"
    /\ tasks[t].pc = "start"
    /\ tasks' =
           IF running[tasks[t].comp] \/ (tasks[t].comp = "queue" /\ ~enabled)
           THEN Finished(tasks, t)
           ELSE [tasks EXCEPT ![t].pc = "checked"]
    /\ UNCHANGED <<restarted, mgrRunning, ctxCancelled, enabled,
                   running, stopClosed, mop,
                   callerDone, connsClosed, nOps, ret, panicOp>>
    /\ UNCHANGED <<qvars, svars, fvars, hvars>>

\* isRunning = true; the sweeper enters its loop, the queue spawns its
\* polling loops and waits for them
TaskLaunch(t) ==
    /\ panicOp = "none"
    /\ tasks[t].pc = "checked"
    /\ running' = [running EXCEPT ![tasks[t].comp] = TRUE]
    /\ tasks' = [tasks EXCEPT ![t] =
           IF @.comp = "queue"
           THEN [@ EXCEPT !.pc = "wait", !.loops = [i \in Workers |-> "select"]]
           ELSE [@ EXCEPT !.pc = "loop"]]
    /\ UNCHANGED <<restarted, mgrRunning, ctxCancelled, enabled,
                   stopClosed, mop,
                   callerDone, connsClosed, nOps, ret, panicOp>>
    /\ UNCHANGED <<qvars, svars, fvars, hvars>>

\* the sweeper's select takes <-ctx.Done() or <-w.stopCh
SweeperExit(t) ==
    /\ panicOp = "none"
    /\ tasks[t].pc = "loop"
    /\ ctxCancelled \/ stopClosed["expiration"]
    /\ running' = [running EXCEPT !["expiration"] = FALSE]
    /\ tasks' = Finished(tasks, t)
    /\ UNCHANGED <<restarted, mgrRunning, ctxCancelled, enabled,
                   stopClosed, mop,
                   callerDone, connsClosed, nOps, ret, panicOp>>
    /\ UNCHANGED <<qvars, svars, fvars, hvars>>

\* the sweeper's select takes <-ticker.C: processExpiredStories runs
SweeperTick(t) ==
    /\ panicOp = "none"
    /\ tasks[t].pc = "loop"
    /\ tasks' = [tasks EXCEPT ![t].pc = "sweep"]
    /\ UNCHANGED <<restarted, mgrRunning, ctxCancelled, enabled,
                   running, stopClosed, mop,
                   callerDone, connsClosed, nOps, ret, panicOp>>
    /\ UNCHANGED <<qvars, svars, fvars, hvars>>

\* processExpiredStories returns to the loop
SweeperBack(t) ==
    /\ panicOp = "none"
    /\ tasks[t].pc = "sweep"
    /\ tasks' = [tasks EXCEPT ![t].pc = "loop"]
    /\ UNCHANGED <<restarted, mgrRunning, ctxCancelled, enabled,
                   running, stopClosed, mop,
                   callerDone, connsClosed, nOps, ret, panicOp>>
    /\ UNCHANGED <<qvars, svars, fvars, hvars>>

(***************************************************************************)
(* Queue.worker, the polling loops of one Queue.Start                      *)
(***************************************************************************)
\* the loop's select takes <-ctx.Done() or <-q.stopCh
LoopExitCtxOnly(t, i) ==
    /\ panicOp = "none"
    /\ tasks[t].loops[i] = "select"
    /\ ctxCancelled
    /\ tasks' = [tasks EXCEPT ![t].loops[i] = "exited"]
    /\ UNCHANGED <<restarted, mgrRunning, ctxCancelled, enabled,
                   running, stopClosed, mop,
                   callerDone, connsClosed, nOps, ret, panicOp>>
    /\ UNCHANGED <<qvars, svars, fvars, hvars>>
LoopExit(t, i) ==
    /\ panicOp = "none"
    /\ tasks[t].loops[i] = "select"
    /\ ctxCancelled \/ stopClosed["queue"]
    /\ tasks' = [tasks EXCEPT ![t].loops[i] = "exited"]
    /\ UNCHANGED <<restarted, mgrRunning, ctxCancelled, enabled,
                   running, stopClosed, mop,
                   callerDone, connsClosed, nOps, ret, panicOp>>
    /\ UNCHANGED <<qvars, svars, fvars, hvars>>

\* the loop's select takes <-ticker.C: processNextJob runs
LoopTick(t, i) ==
    /\ panicOp = "none"
    /\ tasks[t].loops[i] = "select"
    /\ tasks' = [tasks EXCEPT ![t].loops[i] = "busy"]
    /\ UNCHANGED <<restarted, mgrRunning, ctxCancelled, enabled,
                   running, stopClosed, mop,
                   callerDone, connsClosed, nOps, ret, panicOp>>
    /\ UNCHANGED <<qvars, svars, fvars, hvars>>

\* processNextJob returns to the loop
LoopBack(t, i) ==
    /\ panicOp = "none"
    /\ tasks[t].loops[i] = "busy"
    /\ tasks' = [tasks EXCEPT ![t].loops[i] = "select"]
    /\ UNCHANGED <<restarted, mgrRunning, ctxCancelled, enabled,
                   running, stopClosed, mop,
                   callerDone, connsClosed, nOps, ret, panicOp>>
    /\ UNCHANGED <<qvars, svars, fvars, hvars>>

\* wg.Wait() of Queue.Start returns: isRunning = false, return nil
QueueReturn(t) ==
    /\ panicOp = "none"
    /\ tasks[t].pc = "wait"
    /\ \A i \in Workers : tasks[t].loops[i] = "exited"
    /\ running' = [running EXCEPT !["queue"] = FALSE]
    /\ tasks' = Finished(tasks, t)
    /\ UNCHANGED <<restarted, mgrRunning, ctxCancelled, enabled,
                   stopClosed, mop,
                   callerDone, connsClosed, nOps, ret, panicOp>>
    /\ UNCHANGED <<qvars, svars, fvars, hvars>>

NextMgr ==
    \/ MgrStart
    \/ ShutdownBegin
    \/ CallerDeadline
    \/ ShutdownWaited
    \/ ShutdownStopExpiration
    \/ ShutdownGrace
    \/ ShutdownFinish
    \/ \E name \in WorkerNames : RestartWorker(name)
    \/ RestartGrace
    \/ \E t \in DOMAIN tasks : TaskCheck(t)
    \/ \E t \in DOMAIN tasks : TaskLaunch(t)
    \/ \E t \in DOMAIN tasks : SweeperExit(t)
    \/ \E t \in DOMAIN tasks : SweeperTick(t)
    \/ \E t \in DOMAIN tasks : SweeperBack(t)
    \/ \E t \in DOMAIN tasks : \E i \in Workers : LoopExit(t, i)
    \/ \E t \in DOMAIN tasks : \E i \in Workers : LoopTick(t, i)
    \/ \E t \in DOMAIN tasks : \E i \in Workers : LoopBack(t, i)
    \/ \E t \in DOMAIN tasks : QueueReturn(t)


Next ==
    \/ Tick
    \/ Enqueue
    \/ \E w \in Workers : Poll(w)
    \/ \E w \in Workers : Claim(w)
    \/ \E w \in Workers : ReturnZero(w)
    \/ \E w \in Workers : Dispatch(w)
    \/ \E w \in Workers : HandlerSucceeds(w)
    \/ \E w \in Workers : HandlerFails(w)

\* the queue part of a state in which nothing is enqueued
QueueQuiet ==
    /\ QueueInit
    /\ cfgMaxRetries = 0

Init == QueueInit /\ SweepQuiet /\ ForceQuiet /\ MgrQuiet /\ HubQuiet

Spec == Init /\ [][Next]_vars

\* Scheduling of a running queue whose store answers: every polling loop
\* gets its ticks, and a cycle that was begun is carried through (the
\* handler returns or the job timeout ends the wait).
FairQueue ==
    \A w \in Workers :
        /\ WF_vars(Poll(w) /\ wpc'[w] = "zrem")
        /\ WF_vars(Claim(w))
        /\ WF_vars(ReturnZero(w))
        /\ WF_vars(Dispatch(w))
        /\ WF_vars(HandlerSucceeds(w) \/ HandlerFails(w))

SpecFair == Spec /\ FairQueue

NextFaults ==
    \/ Next
    \/ \E w \in Workers : RetryEnqueueFails(w)
    \/ \E w \in Workers : Crash(w)

SpecFaults == Init /\ [][NextFaults]_vars

NextStoreErr ==
    \/ Next
    \/ \E w \in Workers : PollFails(w)
    \/ \E w \in Workers : ClaimFails(w)
    \/ \E w \in Workers : LogError(w)

SpecStoreErr == Init /\ [][NextStoreErr]_vars

NextTimeout ==
    \/ Next
    \/ \E w \in Workers : HandlerTimeout(w)
    \/ \E i \in JobIds : LateResult(i)

SpecTimeout == Init /\ [][NextTimeout]_vars

InitSweep == QueueQuiet /\ SweepInit /\ ForceQuiet /\ MgrQuiet /\ HubQuiet

SpecSweep == InitSweep /\ [][NextSweep]_vars

\* The sweeper keeps running and its store answers: the ticker fires again
\* and a sweep that was begun goes on to its end.
FairSweep == WF_vars(NextSweep)

SpecSweepFair == SpecSweep /\ FairSweep

\* a store with so many expired stories, and batch sizes so large, that one
\* sweep comes to the ceiling
SweepInitCeiling ==
    /\ batchSize \in {SweepCeiling, SweepCeiling + 1}
    /\ live = 1 .. MaxSweep
    /\ spc = "idle"
    /\ offset = 0
    /\ totalProcessed = 0
    /\ batch = <<>>
    /\ fetched = 0
    /\ startCount = 0
    /\ fetchLog = <<>>
    /\ metrics = <<>>

InitCeiling == QueueQuiet /\ SweepInitCeiling /\ ForceQuiet /\ MgrQuiet /\ HubQuiet

SpecCeiling == InitCeiling /\ [][NextSweep]_vars

InitMgr == QueueQuiet /\ SweepQuiet /\ ForceQuiet /\ MgrInit /\ HubQuiet

SpecMgr == InitMgr /\ [][NextMgr]_vars

\* Scheduling of the goroutines.  A select with several ready cases picks one
\* at random, so a stop case that is ready at every visit of the select is
\* taken in the end (strong fairness); a goroutine that can run does run, and
\* processNextJob and processExpiredStories return (weak fairness).
FairMgr ==
    /\ SF_vars(\E t \in DOMAIN tasks : \E i \in Workers : LoopExit(t, i))
    /\ SF_vars(\E t \in DOMAIN tasks : SweeperExit(t))
    /\ WF_vars(\E t \in DOMAIN tasks : \E i \in Workers : LoopBack(t, i))
    /\ WF_vars(\E t \in DOMAIN tasks : SweeperBack(t))
    /\ WF_vars(\E t \in DOMAIN tasks : QueueReturn(t))
    /\ WF_vars(\E t \in DOMAIN tasks : TaskCheck(t))
    /\ WF_vars(\E t \in DOMAIN tasks : TaskLaunch(t))

SpecMgrFair == SpecMgr /\ FairMgr

\* The sweeper with its lifecycle: the ticker's sweeps begin while the loop
\* of ExpirationWorker.Start is alive and the loop leaves between two
\* sweeps; ForceRunExpiration is called at any time.  The goroutine of the
\* queue takes no step here.
InitForce ==
    /\ QueueQuiet
    /\ ForceQuiet
    /\ HubQuiet
    /\ MgrQuiet
    /\ batchSize \in 1 .. ForceBatch
    /\ \E n \in 1 .. ForceStories : live = 1 .. n
    /\ spc = "idle"
    /\ offset = 0
    /\ totalProcessed = 0
    /\ batch = <<>>
    /\ fetched = 0
    /\ startCount = 0
    /\ fetchLog = <<>>
    /\ metrics = <<>>

NextForce ==
    \/ MgrStart
    \/ RestartWorker("expiration")
    \/ RestartGrace
    \/ \E t \in DOMAIN tasks : tasks[t].comp = "expiration" /\ TaskCheck(t)
    \/ \E t \in DOMAIN tasks : tasks[t].comp = "expiration" /\ TaskLaunch(t)
    \/ \E t \in DOMAIN tasks : spc = "idle" /\ SweeperExit(t)
    \/ (\E t \in DOMAIN tasks : tasks[t].pc = "loop") /\ SweepBegin
    \/ Fetch
    \/ ProcessStory
    \/ AfterBatch
    \/ BatchDelay
    \/ SweepFinish
    \/ ForceRunCall
    \/ ForceFetch
    \/ ForceProcessStory
    \/ ForceAfterBatch
    \/ ForceBatchDelay
    \/ ForceFinish

SpecForce == InitForce /\ [][NextForce]_vars

\* the hub alone
InitHub == QueueQuiet /\ SweepQuiet /\ ForceQuiet /\ MgrQuiet /\ HubQuiet

SpecHub == InitHub /\ [][NextHub]_vars

(***************************************************************************)
(* Properties of the job queue.                                            *)
(***************************************************************************)
InQueue(i) == \E e \in queue : e.member.id = i
Executing(i) == \E w \in Workers : wpc[w] \in {"claimed", "running"} /\ held[w].id = i
\* the retry ceiling of the jobs that Enqueue builds
QueueMaxRetries ==
    IF cfgMaxRetries # 0 THEN cfgMaxRetries ELSE DefaultMaxRetries

\* C1: at-most-one claim.  No entry of job_queue (a job id at one attempts
\* value) is handed to processJob more than once, and two workers never hold
\* the same job after their ZRem; the worker whose ZRem removed nothing holds
\* an entry that is no longer in the queue.
C1_AtMostOneClaim ==
    /\ \A i \in JobIds : \A a \in 0 .. MaxAttempts : execCount[i][a] <= 1
    /\ \A w1, w2 \in Workers :
        (/\ w1 # w2
         /\ wpc[w1] \in {"claimed", "running"}
         /\ wpc[w2] \in {"claimed", "running"}) => held[w1].id # held[w2].id
    /\ \A w \in Workers :
        wpc[w] = "zero" => ~(\E e \in queue : e.member = held[w])

\* two workers read the same entry; one removed it, the other got removed == 0
C1_Witness ==
    \E w1, w2 \in Workers :
        /\ wpc[w1] = "zero"
        /\ wpc[w2] = "claimed"
        /\ held[w1] = held[w2]

\* C2: at-least-once delivery.  Every job that was enqueued is in job_queue,
\* or is being executed by a worker, or its handler has returned success or
\* has failed maxRetries times (or its type has no handler).
C2_AtLeastOnce ==
    \A i \in JobIds :
        i < nextId =>
            \/ InQueue(i)
            \/ Executing(i)
            \/ outcome[i] \in {"done", "exhausted", "nohandler"}

\* C3: due-time respect.  A worker that has removed a job from the queue
\* did so at a clock reading that is not before the job's runAt.
C3_DueTimeRespect ==
    \A w \in Workers : wpc[w] = "claimed" => held[w].runAt <= now

\* C4: retry bound.  The handler of a job is invoked at most maxRetries
\* times, with attempts counting the invocations; a job whose handler failed
\* every time is dropped after exactly maxRetries invocations and is in the
\* queue no more.
C4_RetryBound ==
    /\ \A i \in JobIds : handlerCalls[i] <= QueueMaxRetries
    /\ \A e \in queue : e.member.attempts < QueueMaxRetries
    /\ \A w \in Workers :
        wpc[w] = "running" => held[w].attempts = handlerCalls[held[w].id]
    /\ \A i \in JobIds :
        outcome[i] = "exhausted" =>
            /\ handlerCalls[i] = QueueMaxRetries
            /\ ~InQueue(i)
            /\ ~Executing(i)

\* a job with maxRetries = 3 was dropped after its third failure
C4_Witness ==
    \E i \in JobIds :
        /\ outcome[i] = "exhausted"
        /\ QueueMaxRetries = 3
        /\ handlerCalls[i] = 3

\* C5: retry statistics.  When the only job ever enqueued had maxRetries = 3
\* and was dropped after failing every time, JobsFailed is 1 and JobsRetried
\* is 2.
C5_RetryStats ==
    (/\ nextId = 2
     /\ QueueMaxRetries = 3
     /\ outcome[1] = "exhausted") =>
        /\ stats.JobsFailed = 1
        /\ stats.JobsRetried = 2

C7_SweepBatches ==
    (spc = "finish" /\ startCount < SweepCeiling) =>
        /\ live = {}
        /\ Len(fetchLog) = (startCount \div batchSize) + 1
        /\ \A k \in 1 .. Len(fetchLog) :
            fetchLog[k] = IF k < Len(fetchLog) THEN batchSize
                          ELSE startCount % batchSize

(***************************************************************************)
(* Properties of the worker manager.                                       *)
(***************************************************************************)
\* the component is down for good: not running, and no goroutine is left
\* that could set it running
Dead(c) ==
    /\ ~running[c]
    /\ \A t \in DOMAIN tasks : tasks[t].comp # c

\* C8: RestartWorker relaunches the component.  On a manager that is started
\* and not shut down, once RestartWorker has launched the new goroutine of a
\* component and no later RestartWorker or Shutdown was called, the component
\* is running or about to run: it is never down for good.
C8_RestartRelaunches ==
    \A c \in Components :
        (/\ restarted[c]
         /\ mgrRunning /\ ~ctxCancelled /\ panicOp = "none"
         /\ c = "queue" => enabled) => ~Dead(c)

\* C9: bounded shutdown.  Shutdown never ends in a panic, and when it has
\* returned from the full path the connections are closed and the manager
\* is not running.
C9_BoundedShutdown ==
    /\ panicOp # "Shutdown"
    /\ (ret.op = "Shutdown" /\ ret.result # "pending") =>
            /\ ret.result = "nil"
            /\ ~mgrRunning
            /\ ret.early \/ connsClosed

\* C10: idempotent shutdown.  A Shutdown call on a manager that is not
\* running (never started, or shut down before) returns nil at once: it
\* closes no stop channel and no connection, cancels nothing and does not
\* panic.
C10_IdempotentShutdown ==
    [][(/\ nOps' = nOps + 1
        /\ ret'.op = "Shutdown"
        /\ ~mgrRunning) =>
            /\ ret' = Returned("Shutdown", "nil", TRUE)
            /\ mop' = "none"
            /\ tasks' = tasks
            /\ mgrRunning' = mgrRunning
            /\ panicOp' = "none"
            /\ UNCHANGED <<ctxCancelled, running, stopClosed, connsClosed>>]_vars

\* a second Shutdown has returned nil after a first one that ran in full
C10_Witness ==
    /\ ret = Returned("Shutdown", "nil", TRUE)
    /\ connsClosed
    /\ ~mgrRunning
    /\ panicOp = "none"

\* the component has stopped: not running, and none of its goroutines is in
\* a loop
Stopped(c) ==
    /\ ~running[c]
    /\ \A t \in DOMAIN tasks :
        tasks[t].comp = c => tasks[t].pc \in {"start", "checked"}

\* the stop signal of the component was given
StopGiven(c) == stopClosed[c] \/ ctxCancelled

LiveLoops(t) ==
    IF tasks[t].comp = "queue"
    THEN Cardinality({i \in Workers : tasks[t].loops[i] \in {"select", "busy"}})
    ELSE IF tasks[t].pc \in {"loop", "sweep"} THEN 1 ELSE 0

RECURSIVE SumLive(_, _)
\* the loops of component c that are alive in the goroutines 1 .. n
SumLive(c, n) ==
    IF n = 0 THEN 0
    ELSE SumLive(c, n - 1) + (IF tasks[n].comp = c THEN LiveLoops(n) ELSE 0)

\* C12: Start blocks until fully stopped.  A Queue.Start call that has
\* spawned its loops and has not returned finds IsRunning true: isRunning is
\* true from the spawn of the loops until the return of that call.
C12_StartBlocks ==
    \A t \in DOMAIN tasks :
        (tasks[t].comp = "queue" /\ tasks[t].pc = "wait") => running["queue"]

\* C13: bounded concurrency.  At most `workers` polling loops of the queue
\* and at most one sweeper loop are alive at any time.
C13_BoundedConcurrency ==
    /\ SumLive("queue", Len(tasks)) <= NumWorkers
    /\ SumLive("expiration", Len(tasks)) <= 1

\* C14: a job of an unregistered type is dropped, not retried.  Such a job
\* is never run and never re-inserted: an entry of that type in the queue,
\* or just claimed, has never been through processJob, no handler was
\* invoked for it and its attempts counter is 0; once dropped it is neither
\* in the queue nor held by a worker, and it went through processJob once.
C14_UnregisteredDropped ==
    /\ \A e \in queue :
        e.member.type \notin Handlers =>
            /\ e.member.attempts = 0
            /\ handlerCalls[e.member.id] = 0
            /\ \A a \in 0 .. MaxAttempts : execCount[e.member.id][a] = 0
    /\ \A w \in Workers :
        (held[w] # NoJob /\ held[w].type \notin Handlers) =>
            /\ wpc[w] # "running"
            /\ held[w].attempts = 0
            /\ handlerCalls[held[w].id] = 0
    /\ \A i \in JobIds :
        outcome[i] = "nohandler" =>
            /\ ~InQueue(i)
            /\ ~Executing(i)
            /\ handlerCalls[i] = 0
            /\ execCount[i][0] = 1
            /\ \A a \in 1 .. MaxAttempts : execCount[i][a] = 0

\* a job of an unregistered type was claimed and dropped, and another job is
\* still in the queue
C14_Witness ==
    \E i, j \in JobIds : outcome[i] = "nohandler" /\ InQueue(j)

\* C15: dropping a job of an unregistered type leaves the statistics alone.
\* The step of processJob that drops the claimed job changes none of
\* JobsProcessed, JobsFailed and JobsRetried.
C15_UnregisteredStats ==
    [][\A w \in Workers :
        (/\ wpc[w] = "claimed"
         /\ held[w].type \notin Handlers
         /\ wpc'[w] = "select") => stats' = stats]_vars

\* the jobs (registered type) that are due in the queue and were never run
DueFresh(i) ==
    \E e \in queue :
        /\ e.member.id = i
        /\ e.member.type \in Handlers
        /\ e.member.attempts = 0
        /\ e.score <= Unix(now)

\* what C16 says of every state
C16_Once ==
    /\ \A w \in Workers :
        wpc[w] = "running" => held[w].payload = PayloadOf(held[w].id)
    /\ \A i \in JobIds :
        (outcome[i] = "done" /\ \A a \in 1 .. MaxAttempts : execCount[i][a] = 0) =>
            /\ handlerCalls[i] = 1
            /\ execCount[i][0] = 1
            /\ ~InQueue(i)
            /\ ~Executing(i)
    /\ (/\ nextId = 2
        /\ outcome[1] = "done"
        /\ \A a \in 1 .. MaxAttempts : execCount[1][a] = 0) =>
            stats = [JobsProcessed |-> 1, JobsFailed |-> 0, JobsRetried |-> 0]

C17_TimeoutIsFailure ==
    [][/\ \A w \in Workers :
            (/\ wpc[w] = "running"
             /\ wpc'[w] = "select"
             /\ held[w].id \in late' \ late) =>
                LET job == held[w]
                    retried == [job EXCEPT !.runAt = now + job.attempts * Minute]
                IN  IF job.attempts < QueueMaxRetries
                    THEN /\ queue' = queue \cup
                                {[score |-> Unix(retried.runAt), member |-> retried]}
                         /\ stats' = updateStats(stats, FALSE, TRUE)
                    ELSE /\ queue' = queue
                         /\ ~InQueue(job.id)
                         /\ stats' = updateStats(stats, FALSE, FALSE)
       /\ (late' \subseteq late /\ late' # late) =>
                /\ stats' = stats
                /\ queue' = queue
                /\ wpc' = wpc]_vars

\* a job timed out at its first attempt and was re-enqueued; the handler of
\* that attempt is still running
C17_Witness ==
    \E i \in late : \E e \in queue :
        /\ e.member.id = i
        /\ e.member.attempts = 1
        /\ stats.JobsRetried = 1

\* the stories fetched so far in the sweep
RECURSIVE SumSeq(_)
SumSeq(s) == IF s = <<>> THEN 0 ELSE Head(s) + SumSeq(Tail(s))

\* C18: sweep safety ceiling.  In one sweep the number of stories fetched,
\* and the number retired, never exceeds 10,000.
C18_SweepCeiling ==
    /\ SumSeq(fetchLog) <= SweepCeiling
    /\ totalProcessed <= SweepCeiling

\* the entry that a sweep ending with totalProcessed items is to record:
\* the processed count, kept for 24 hours
SweepEntry == [processed_count |-> totalProcessed, ttl |-> 24 * 60 * 60]

\* C19 as stated: every sweep that runs to completion, whatever number of
\* items it processed, records exactly one metrics entry with the processed
\* count and a 24 hour retention.
C19_MetricsEverySweep ==
    [][(spc = "finish" /\ spc' = "idle") =>
            metrics' = Append(metrics, SweepEntry)]_vars

\* C19: sweep metrics.  A sweep that runs to completion and processed at
\* least one item records exactly one metrics entry with the processed count
\* and a 24 hour retention; a sweep that processed nothing records none, and
\* nothing else writes an entry.
C19_MetricsPerSweep ==
    [][IF spc = "finish" /\ spc' = "idle" /\ totalProcessed > 0
       THEN metrics' = Append(metrics, SweepEntry)
       ELSE metrics' = metrics]_vars

\* two sweeps have run to completion and each has recorded its entry
C19_Witness ==
    /\ spc = "idle"
    /\ Len(metrics) = 2
    /\ metrics[2].processed_count = totalProcessed
    /\ metrics[2].ttl = 86400

\* C20: claim order.  The entry that a poll cycle reads, and then removes,
\* has a runAt that is minimal among the jobs that are in the queue and due
\* (runAt <= now) when the cycle reads the queue.
C20_ClaimOrder ==
    [][\A w \in Workers :
        (wpc[w] = "select" /\ wpc'[w] = "zrem") =>
            \A f \in queue :
                f.member.runAt <= now => held'[w].runAt <= f.member.runAt]_vars

\* the goroutines of component c, in the order they were launched
TasksOf(ts, c) == SelectSeq(ts, LAMBDA x : x.comp = c)

\* what a RestartWorker(name) step leaves alone
RestartFrame(name) ==
    IF name \notin Components
    THEN /\ ret' = Returned("RestartWorker", "error", TRUE)
         /\ UNCHANGED <<running, stopClosed, tasks, queue, ctxCancelled>>
    ELSE /\ panicOp' = "none"
         /\ queue' = queue
         /\ \A c \in Components \ {name} :
                /\ running'[c] = running[c]
                /\ stopClosed'[c] = stopClosed[c]
                /\ TasksOf(tasks', c) = TasksOf(tasks, c)

\* C21: RestartWorker does not touch the other component.  A call with the
\* name of a component leaves the running flag, the stop channel and the
\* goroutines of the other component as they are, and the queue contents
\* too, and it does not end the process; a call with any other name returns
\* an error and changes no component.
C21_RestartFrame ==
    [][/\ \A name \in WorkerNames : RestartWorker(name) => RestartFrame(name)
       /\ RestartGrace => RestartFrame("expiration")]_vars

\* C22: the guard of Manager.Start.  A Start call on a manager that is not
\* running launches exactly one sweeper goroutine and one queue goroutine,
\* sets the manager running and returns nil while both goroutines are at
\* their start; a Start call on a running manager returns an error, launches
\* nothing and leaves the manager running.  The calls hold the manager's
\* mutex, so the same is true of calls made concurrently.
C22_StartGuard ==
    [][(nOps' = nOps + 1 /\ ret'.op = "Start") =>
        IF mgrRunning
        THEN /\ ret' = Returned("Start", "error", TRUE)
             /\ tasks' = tasks
             /\ mgrRunning'
        ELSE /\ ret' = Returned("Start", "nil", FALSE)
             /\ tasks' = tasks \o <<NewTask("expiration"), NewTask("queue")>>
             /\ mgrRunning']_vars

\* a second Start call was refused while the goroutines of the first run
C22_Witness ==
    /\ ret = Returned("Start", "error", TRUE)
    /\ mgrRunning
    /\ Len(TasksOf(tasks, "queue")) = 1
    /\ Len(TasksOf(tasks, "expiration")) = 1
    /\ running["queue"] /\ running["expiration"]

C24_StoreErrorSurvived ==
    [][\A w \in Workers :
          /\ (wpc[w] \in {"select", "zrem"} /\ wpc'[w] = "logerr") =>
                /\ handlerCalls' = handlerCalls
                /\ execCount' = execCount
                /\ stats' = stats
                /\ running' = running
          /\ (wpc[w] = "logerr" /\ wpc'[w] # "logerr") =>
                /\ wpc'[w] = "select"
                /\ held'[w] = NoJob
                /\ handlerCalls' = handlerCalls
                /\ stats' = stats
                /\ running' = running]_vars

\* a loop is logging the error of a ZRem that the store did not run: the job
\* it had read is still in the queue, and jobs were processed before
C24_Witness ==
    \E w \in Workers :
        /\ wpc[w] = "logerr"
        /\ held[w] # NoJob
        /\ \E e \in queue : e.member = held[w]
        /\ stats.JobsProcessed > 0

\* the handler invocations of job i that are in progress: those a polling
\* loop waits for, and the one that a timed-out attempt left behind
InProgress(i) ==
    Cardinality({w \in Workers : wpc[w] = "running" /\ held[w].id = i})
        + (IF i \in late THEN 1 ELSE 0)

\* C25: no overlapping executions of one job.  At most one handler
\* invocation is in progress for a job id; the invocation of an attempt that
\* ended by timeout has finished before the handler runs for the retry.
C25_NoOverlap == \A i \in JobIds : InProgress(i) <= 1

\* C26: stop signals are closed at most once.  Whatever the sequence of
\* Start, RestartWorker and Shutdown calls, no call closes a stop channel
\* that is closed already, so none of them panics.
C26_CloseOnce == panicOp = "none"

RECURSIVE SumExec(_, _)
\* the processJob calls begun for job i with attempts counts 0 .. a
SumExec(i, a) ==
    IF a < 0 THEN 0 ELSE execCount[i][a] + SumExec(i, a - 1)

RECURSIVE SumJobs(_)
\* the processJob calls begun for the jobs 1 .. i
SumJobs(i) ==
    IF i = 0 THEN 0 ELSE SumExec(i, MaxAttempts) + SumJobs(i - 1)

\* the processJob calls that have returned: those begun, less those that
\* wait for their handler
Completed ==
    SumJobs(MaxJobs) - Cardinality({w \in Workers : wpc[w] = "running"})

\* C27: every processed job is counted exactly once.  After every step
\* JobsProcessed + JobsFailed is the number of processJob calls that have
\* returned and JobsRetried <= JobsFailed, and no step decreases one of the
\* three counters.
C27_CountedOnce ==
    [][/\ stats'.JobsProcessed + stats'.JobsFailed = Completed'
       /\ stats'.JobsRetried <= stats'.JobsFailed
       /\ stats'.JobsProcessed >= stats.JobsProcessed
       /\ stats'.JobsFailed >= stats.JobsFailed
       /\ stats'.JobsRetried >= stats.JobsRetried]_vars

\* a job has succeeded, one has failed for good and one attempt that ended
\* by its timeout was retried
C27_Witness ==
    /\ stats.JobsProcessed >= 1
    /\ stats.JobsFailed >= 2
    /\ stats.JobsRetried >= 1
    /\ stats.JobsFailed > stats.JobsRetried
    /\ late # {}

\* C28: concurrent sweeps do not double count.  A story leaves the store in
\* the step of one sweep only and that sweep alone adds it to its count;
\* the sweep that finds the story deleted already counts nothing and goes
\* on with the rest of its batch.
C28_NoDoubleCount ==
    [][LET dT == IF spc = "idle" THEN 0 ELSE totalProcessed' - totalProcessed
           dF == IF fpc = "none" THEN 0 ELSE ftotal' - ftotal
       IN  /\ dT >= 0 /\ dF >= 0
           /\ dT + dF = Cardinality(live \ live')
           /\ live' \subseteq live
           /\ (spc = "process" /\ batch' # batch /\ Head(batch) \notin live) =>
                  (dT = 0 /\ batch' = Tail(batch) /\ spc' = "process")
           /\ (fpc = "process" /\ fbatch' # fbatch /\ Head(fbatch) \notin live) =>
                  (dF = 0 /\ fbatch' = Tail(fbatch) /\ fpc' = "process")]_vars

\* the ticker's sweep has gone through stories of its first fetch that the
\* sweep of ForceRun had deleted before it, and has not counted them
C28_Witness ==
    /\ spc = "process"
    /\ offset = 0
    /\ fetched - Len(batch) > totalProcessed
    /\ fpc # "none"
    /\ ftotal > 0
    /\ batch # <<>>

\* C29: expired content is eventually retired.  With a sweeper that keeps
\* running, a store that answers and no further expiry, every story that is
\* expired and not deleted is soft-deleted by some sweep, whatever the number
\* of stories and the batch size.
C29_EventuallyRetired ==
    \A s \in 1 .. MaxStories : (s \in live) ~> (s \notin live)

\* the store is empty after two sweeps that deleted stories: the first one
\* had left some behind
C29_Witness ==
    /\ live = {}
    /\ Len(metrics) >= 2
    /\ spc = "idle"

\* the clients in some list of Hub.userClients
InUserClients ==
    {c \in Clients : \E i \in DOMAIN userClients[UserOf(c)] :
                         userClients[UserOf(c)][i] = c}

\* C30: the websocket hub never uses a closed send channel.  No operation of
\* the hub sends on or closes a send channel that is closed already, and a
\* client whose send channel is closed is in neither Hub.clients nor a list
\* of Hub.userClients.
C30_NoClosedUse ==
    /\ hubPanic = "none"
    /\ \A c \in Clients :
           sendClosed[c] => (c \notin clients /\ c \notin InUserClients)

====
